---- MODULE Spec2Model ----
(***************************************************************************)
(* Snake Game - Modern Edition (game.hpp / game.cpp): the game state       *)
(* machine, the snake simulation and the file-backed score stores.         *)
(*                                                                         *)
(* Times are integer milliseconds.  A text file is the sequence of its     *)
(* whitespace-delimited tokens; a missing file reads like an empty one     *)
(* (every loader only skips its loop when is_open() fails).  The rendering *)
(* routines and animationTimer / moveInterval, which no logic reads, are   *)
(* left out.                                                               *)
(***************************************************************************)
EXTENDS Integers, Sequences, FiniteSets, TLC

(***************************************************************************)
(* Bounds of the model.  The grid and the leaderboard capacity are scaled  *)
(* down from the program's 30 x 20 cells and 10 entries.                   *)
(***************************************************************************)
GRID_WIDTH == 3

GRID_HEIGHT == 5

MAX_LEADERBOARD_ENTRIES == 2

\* Foods eaten per session (caps the score and the snake's length).
MaxFood == 2

\* Records of a user_scores.txt the store checks start from.
MaxRecords == 3

\* The highest score of the speed checks.
MaxSpeedScore == 400

(***************************************************************************)
(* Program constants.                                                      *)
(***************************************************************************)
MAX_OBSTACLES == 100

(***************************************************************************)
(* Tokens of a text file: a word or a decimal integer.                     *)
(***************************************************************************)
Wd(w) == [word |-> w, num |-> 0]

Nm(n) == [word |-> "", num |-> n]

IsNum(t) == t.word = ""

\* Words in the order std::string compares them.
WordOrder == <<"ann", "bob", "joe", "zed">>

WordRank(w) == CHOOSE i \in 1..Len(WordOrder) : WordOrder[i] = w

\* Position of a token in std::string order; digits sort before letters.  The
\* numbers of the model (0 and two-digit numbers) compare as their decimal strings.
TokRank(t) == IF IsNum(t) THEN t.num - 1000 ELSE WordRank(t.word)

\* std::string operator< on names, a name being the sequence of its
\* space-separated tokens: lexicographic, a proper prefix first.
RECURSIVE NameLess(_, _)
NameLess(a, b) ==
    IF b = <<>> THEN FALSE
    ELSE IF a = <<>> THEN TRUE
    ELSE IF TokRank(Head(a)) # TokRank(Head(b)) THEN TokRank(Head(a)) < TokRank(Head(b))
    ELSE NameLess(Tail(a), Tail(b))

\* while (file >> name >> score): the (name, score) pairs read until the first
\* extraction that fails (a score token that is no integer, or the end).
RECURSIVE ReadPairs(_)
ReadPairs(toks) ==
    IF Len(toks) < 2 THEN <<>>
    ELSE IF ~IsNum(toks[2]) THEN <<>>
    ELSE <<[name |-> <<toks[1]>>, score |-> toks[2].num]>>
             \o ReadPairs(SubSeq(toks, 3, Len(toks)))

\* file << name << " " << score << "\n" for each entry in turn.
RECURSIVE WriteEntries(_)
WriteEntries(entries) ==
    IF entries = <<>> THEN <<>>
    ELSE Head(entries).name \o <<Nm(Head(entries).score)>> \o WriteEntries(Tail(entries))

\* std::map<std::string,int> as a function; its iteration is in key order.
RECURSIVE MapEntries(_)
MapEntries(m) ==
    IF DOMAIN m = {} THEN <<>>
    ELSE LET k == CHOOSE a \in DOMAIN m : \A b \in DOMAIN m : a = b \/ NameLess(a, b)
         IN <<[name |-> k, score |-> m[k]]>>
                \o MapEntries([x \in DOMAIN m \ {k} |-> m[x]])

MapPut(m, k, v) == [x \in DOMAIN m \cup {k} |-> IF x = k THEN v ELSE m[x]]

EmptyMap == [x \in {} |-> 0]

\* The loop of loadLeaderboard and saveSessionBestScore: the maximum per name.
RECURSIVE MergeMax(_, _)
MergeMax(m, pairs) ==
    IF pairs = <<>> THEN m
    ELSE LET p == Head(pairs)
         IN MergeMax(IF p.name \notin DOMAIN m \/ p.score > m[p.name]
                        THEN MapPut(m, p.name, p.score) ELSE m,
                     Tail(pairs))

\* The loop of savePersonalBest: userScores[name] = existingScore, the last wins.
RECURSIVE MergeLast(_, _)
MergeLast(m, pairs) ==
    IF pairs = <<>> THEN m
    ELSE MergeLast(MapPut(m, Head(pairs).name, Head(pairs).score), Tail(pairs))

\* ScoreEntry::operator< : a sorts before b when its score is higher.
EntryLess(a, b) == a.score > b.score

IsSorted(s) == \A i \in 1..Len(s) - 1 : ~EntryLess(s[i + 1], s[i])

\* std::sort(begin, end): some permutation ordered by operator<; the order of
\* entries that compare equal is unspecified, so every such order is a result.
RECURSIVE SortedFrom(_, _)
SortedFrom(s, rest) ==
    IF rest = {} THEN {<<>>}
    ELSE UNION {{<<s[i]>> \o q : q \in SortedFrom(s, rest \ {i})} :
                   i \in {k \in rest : \A j \in rest : ~EntryLess(s[j], s[k])}}

SortResults(s) == SortedFrom(s, 1..Len(s))

(***************************************************************************)
(* The stores' loaders and savers, as functions of the file read.          *)
(***************************************************************************)
Max(a, b) == IF a >= b THEN a ELSE b

\* Game::loadLeaderboard: the leaderboards it can leave in memory.
loadLeaderboard(file) == SortResults(MapEntries(MergeMax(EmptyMap, ReadPairs(file))))

\* The first loop of saveToLeaderboard and the push_back after it.
Upsert(lb, player, sc) ==
    IF \E i \in 1..Len(lb) : lb[i].name = player
    THEN LET i == CHOOSE k \in 1..Len(lb) :
                      lb[k].name = player /\ \A j \in 1..k - 1 : lb[j].name # player
         IN IF sc > lb[i].score THEN [lb EXCEPT ![i].score = sc] ELSE lb
    ELSE Append(lb, [name |-> player, score |-> sc])

\* A resize that keeps the last MAX_LEADERBOARD_ENTRIES entries.
TruncateTail(lb) ==
    IF Len(lb) > MAX_LEADERBOARD_ENTRIES
    THEN SubSeq(lb, Len(lb) - MAX_LEADERBOARD_ENTRIES + 1, Len(lb)) ELSE lb

\* leaderboard.resize(MAX_LEADERBOARD_ENTRIES) when it is longer.
Truncate(lb) ==
    IF Len(lb) > MAX_LEADERBOARD_ENTRIES THEN SubSeq(lb, 1, MAX_LEADERBOARD_ENTRIES) ELSE lb

\* Game::saveToLeaderboard: the leaderboards it can leave in memory.
saveToLeaderboard(lb, player, sc) ==
    IF sc > 0 THEN {Truncate(q) : q \in SortResults(Upsert(lb, player, sc))} ELSE {lb}

\* scores.txt after saveToLeaderboard left newLb in memory; opened says whether
\* the ofstream could be opened.
leaderboardFileAfter(file, newLb, sc, opened) ==
    IF sc > 0 /\ opened THEN WriteEntries(newLb) ELSE file

\* Game::loadHighestScores: <<overallHighestScore, personalBestScore>>.
RECURSIVE HighestScores(_, _, _, _)
HighestScores(pairs, player, overall, personal) ==
    IF pairs = <<>> THEN <<overall, personal>>
    ELSE LET p == Head(pairs)
         IN HighestScores(Tail(pairs), player,
                          IF p.score > overall THEN p.score ELSE overall,
                          IF p.name = player /\ p.score > personal THEN p.score ELSE personal)

loadHighestScores(file, player) == HighestScores(ReadPairs(file), player, 0, 0)

\* user_scores.txt after Game::savePersonalBest got past its first line.
personalBestFileAfter(file, player, sc, opened) ==
    IF opened
    THEN WriteEntries(MapEntries(MapPut(MergeLast(EmptyMap, ReadPairs(file)), player, sc)))
    ELSE file

\* user_scores.txt after Game::saveSessionBestScore.
saveSessionBestScore(file, opened) ==
    IF opened THEN WriteEntries(MapEntries(MergeMax(EmptyMap, ReadPairs(file)))) ELSE file

\* Game::loadSettings: file >> showGrid.  Nothing is extracted from an empty or
\* missing file; 0 and 1 are the values saveSettings writes.
loadSettings(file, current) ==
    IF file = <<>> THEN current
    ELSE IF IsNum(file[1]) /\ file[1].num = 1 THEN TRUE
    ELSE IF IsNum(file[1]) /\ file[1].num = 0 THEN FALSE
    ELSE IsNum(file[1])

\* A saveSettings that writes nothing.
saveSettingsNot(file, flag, opened) == file

\* Game::saveSettings: file << showGrid.
saveSettings(file, flag, opened) ==
    IF opened THEN <<Nm(IF flag THEN 1 ELSE 0)>> ELSE file

InGrid(pos) == pos[1] >= 0 /\ pos[1] < GRID_WIDTH /\ pos[2] >= 0 /\ pos[2] < GRID_HEIGHT

\* Game::loadObstacles: while (file >> x >> y && size < MAX_OBSTACLES).
RECURSIVE ReadObstacles(_, _)
ReadObstacles(toks, acc) ==
    IF Len(toks) < 2 \/ ~IsNum(toks[1]) \/ ~IsNum(toks[2]) \/ Len(acc) >= MAX_OBSTACLES
    THEN acc
    ELSE LET pos == <<toks[1].num, toks[2].num>>
         IN ReadObstacles(SubSeq(toks, 3, Len(toks)),
                          IF InGrid(pos) THEN Append(acc, pos) ELSE acc)

loadObstacles(file) == ReadObstacles(file, <<>>)

(***************************************************************************)
(* The snake simulation.  A Position is <<x, y>>; y grows downwards.        *)
(***************************************************************************)
Directions == {"UP", "DOWN", "LEFT", "RIGHT"}

Opposite(d) ==
    CASE d = "UP" -> "DOWN" [] d = "DOWN" -> "UP" [] d = "LEFT" -> "RIGHT" [] d = "RIGHT" -> "LEFT"

\* Game::initializeSnake: the body it builds, head first.
initializeSnake ==
    << <<GRID_WIDTH \div 2, GRID_HEIGHT \div 2>>,
       <<GRID_WIDTH \div 2, GRID_HEIGHT \div 2 + 1>>,
       <<GRID_WIDTH \div 2, GRID_HEIGHT \div 2 + 2>> >>

\* Game::moveSnake: the new head pushed to the front, no segment removed.
moveSnake(body, dir) ==
    LET h == Head(body)
        newHead == CASE dir = "UP"    -> <<h[1], h[2] - 1>>
                     [] dir = "DOWN"  -> <<h[1], h[2] + 1>>
                     [] dir = "LEFT"  -> <<h[1] - 1, h[2]>>
                     [] dir = "RIGHT" -> <<h[1] + 1, h[2]>>
    IN <<newHead>> \o body

\* A checkCollision that lets the head enter the cell of the last segment.
checkCollisionSparesTail(body, obs) ==
    LET head == Head(body)
    IN IF head[1] < 0 \/ head[1] >= GRID_WIDTH \/ head[2] < 0 \/ head[2] >= GRID_HEIGHT
       THEN TRUE
       ELSE IF \E i \in 2..Len(body) - 1 : body[i] = head THEN TRUE
       ELSE IF \E j \in 1..Len(obs) : obs[j] = head THEN TRUE
       ELSE FALSE

\* Game::checkCollision on a body whose front is the new head.
checkCollision(body, obs) ==
    LET head == Head(body)
    IN IF head[1] < 0 \/ head[1] >= GRID_WIDTH \/ head[2] < 0 \/ head[2] >= GRID_HEIGHT
       THEN TRUE
       ELSE IF \E i \in 2..Len(body) : body[i] = head THEN TRUE
       ELSE IF \E j \in 1..Len(obs) : obs[j] = head THEN TRUE
       ELSE FALSE

\* An emptyPositions that leaves the obstacles out of account.
emptyPositionsOffSnake(body, obs) ==
    {pos \in (0..GRID_WIDTH - 1) \X (0..GRID_HEIGHT - 1) :
        \A i \in 1..Len(body) : body[i] # pos}

\* Game::generateFood: the cells of emptyPositions.
emptyPositions(body, obs) ==
    {pos \in (0..GRID_WIDTH - 1) \X (0..GRID_HEIGHT - 1) :
        /\ \A i \in 1..Len(body) : body[i] # pos
        /\ \A j \in 1..Len(obs) : obs[j] # pos}

\* A generateFood that samples the list of empty cells even when it is empty.
generateFoodUnguarded(body, obs, oldFood) == emptyPositions(body, obs)

\* Game::generateFood: the values food can have afterwards; rand() picks any
\* empty cell, and food is left alone when there is none.
generateFood(body, obs, oldFood) ==
    IF emptyPositions(body, obs) # {} THEN emptyPositions(body, obs) ELSE {oldFood}

\* Game::calculateSpeed, in milliseconds.
calculateSpeedUnclamped(sc) == 150 - (sc \div 30) * 20

calculateSpeed(sc) == Max(50, 150 - (sc \div 30) * 20)

timerElapsedStrict(timer, currentSpeed) == timer > currentSpeed

\* The test of update on the accumulated movement time.
timerElapsed(timer, currentSpeed) == timer >= currentSpeed

(***************************************************************************)
(* Inputs.                                                                 *)
(***************************************************************************)
\* The keys that go down in the model.  The arrow keys, ESCAPE and SPACE are
\* left out: every handler reads the arrows and ESCAPE in one || with W, S, A,
\* D and Q, and SPACE in one || with ENTER or with P.
Keys == {"W", "S", "A", "D", "ENTER", "P", "Q", "R", "L"}

\* The sets of keys that can go down in one frame, among those a handler reads.
KeySets(read) == SUBSET (Keys \cap read)

\* GetFrameTime(), in milliseconds.
DeltaTimes == {75, 160, 320}

\* The player names main() can pass to the constructor.
PlayerNames == {<<Wd("joe")>>}

\* What the files can hold when the program starts.
ScoresFiles == {<<Wd("ann"), Nm(10)>>}

UserScoresFiles == {<<>>}

\* user_scores.txt for the best-score checks: missing, another player's
\* record, and the player's own record below another player's.
BestUserScoresFiles ==
    {<<>>, <<Wd("ann"), Nm(10)>>, <<Wd("joe"), Nm(10), Wd("ann"), Nm(20)>>}

\* scores.txt when no store can be written: missing, or a name listed twice.
ReadOnlyScoresFiles == {<<>>, <<Wd("ann"), Nm(5), Wd("ann"), Nm(10)>>}

\* scores.txt for the played scenario: missing, the player listed lower or
\* higher than one food scores, and a full leaderboard of higher scores.
ScenarioScoresFiles ==
    {<<>>, <<Wd("joe"), Nm(5)>>, <<Wd("joe"), Nm(20)>>,
     <<Wd("ann"), Nm(30), Wd("bob"), Nm(20)>>}

SettingsFiles == {<<Nm(1)>>}

\* settings.txt for the settings checks: missing, or either flag.
AnySettingsFiles == {<<>>, <<Nm(0)>>, <<Nm(1)>>}

\* The cells an obstacles.txt of the model leaves free: five cells of the
\* snake's column and two cells beside its head.  Every other cell is listed
\* as an obstacle, which keeps the sessions few.
Arena ==
    {<<GRID_WIDTH \div 2, y>> : y \in GRID_HEIGHT \div 2 - 2..GRID_HEIGHT \div 2 + 2}
        \cup {<<GRID_WIDTH \div 2 - 1, GRID_HEIGHT \div 2 - 1>>,
              <<GRID_WIDTH \div 2 - 1, GRID_HEIGHT \div 2>>}

\* The "x y" lines of the cells k, k + 1, ... (column by column) outside Arena.
RECURSIVE ObstacleLines(_)
ObstacleLines(k) ==
    IF k >= GRID_WIDTH * GRID_HEIGHT THEN <<>>
    ELSE LET pos == <<k \div GRID_HEIGHT, k % GRID_HEIGHT>>
         IN (IF pos \in Arena THEN <<>> ELSE <<Nm(pos[1]), Nm(pos[2])>>)
                \o ObstacleLines(k + 1)

\* obstacles.txt: a line outside the grid, then the obstacle lines.
ObstacleFiles == {<<Nm(GRID_WIDTH), Nm(0)>> \o ObstacleLines(0)}

\* Rooms the snake can fill: the three cells it starts on and the one or two
\* cells ahead of its head.
Rooms ==
    {{<<GRID_WIDTH \div 2, y>> : y \in GRID_HEIGHT \div 2 - ahead..GRID_HEIGHT \div 2 + 2} :
        ahead \in 1..2}

\* The "x y" lines of the cells k, k + 1, ... (column by column) outside room.
RECURSIVE RoomObstacleLines(_, _)
RoomObstacleLines(k, room) ==
    IF k >= GRID_WIDTH * GRID_HEIGHT THEN <<>>
    ELSE LET pos == <<k \div GRID_HEIGHT, k % GRID_HEIGHT>>
         IN (IF pos \in room THEN <<>> ELSE <<Nm(pos[1]), Nm(pos[2])>>)
                \o RoomObstacleLines(k + 1, room)

\* obstacles.txt files that wall the snake into a room.
RoomObstacleFiles == {RoomObstacleLines(0, room) : room \in Rooms}

\* The player names of the store checks: one word, and two words with a space.
StorePlayerNames == {<<Wd("joe")>>, <<Wd("joe"), Wd("zed")>>}

\* The scores.txt files of the store checks: up to one record more than the
\* leaderboard keeps, names repeated or not, in any order.
StoreRecords ==
    {<<Wd("ann"), Nm(30)>>, <<Wd("bob"), Nm(20)>>, <<Wd("zed"), Nm(20)>>,
     <<Wd("joe"), Nm(20)>>, <<Wd("joe"), Nm(30)>>}

RECURSIVE StoreFilesOf(_)
StoreFilesOf(k) ==
    IF k = 0 THEN {<<>>}
    ELSE LET shorter == StoreFilesOf(k - 1)
         IN shorter \cup {f \o r : f \in {g \in shorter : Len(g) = 2 * (k - 1)},
                                    r \in StoreRecords}

StoreFiles == StoreFilesOf(MAX_LEADERBOARD_ENTRIES + 1)

\* The user_scores.txt files of the store checks: a name listed twice, the
\* lower score first or last, and the player's own records.
PBRecords ==
    {<<Wd("ann"), Nm(30)>>, <<Wd("ann"), Nm(10)>>, <<Wd("zed"), Nm(20)>>,
     <<Wd("joe"), Nm(20)>>, <<Wd("joe"), Nm(30)>>}

RECURSIVE PBFilesOf(_)
PBFilesOf(k) ==
    IF k = 0 THEN {<<>>}
    ELSE LET shorter == PBFilesOf(k - 1)
         IN shorter \cup {f \o r : f \in {g \in shorter : Len(g) = 2 * (k - 1)},
                                    r \in PBRecords}

PBFiles == PBFilesOf(MaxRecords)

\* Files for the loaders, line by line: a line is two tokens.  Obstacle
\* lines: two cells of the grid, a cell outside it, and two malformed lines.
LoaderObstacleLines ==
    {<<Nm(0), Nm(0)>>, <<Nm(GRID_WIDTH - 1), Nm(1)>>, <<Nm(GRID_WIDTH), Nm(0)>>,
     <<Wd("joe"), Nm(0)>>, <<Nm(0), Wd("joe")>>}

RECURSIVE LoaderObstacleFilesOf(_)
LoaderObstacleFilesOf(k) ==
    IF k = 0 THEN {<<>>}
    ELSE LET shorter == LoaderObstacleFilesOf(k - 1)
         IN shorter \cup {f \o r : f \in {g \in shorter : Len(g) = 2 * (k - 1)},
                                    r \in LoaderObstacleLines}

\* One line more than MAX_OBSTACLES, all of them the same cell.
RECURSIVE LongObstacleFile(_)
LongObstacleFile(k) ==
    IF k = 0 THEN <<>> ELSE <<Nm(0), Nm(1)>> \o LongObstacleFile(k - 1)

LoaderObstacleFiles == LoaderObstacleFilesOf(MaxRecords) \cup {LongObstacleFile(MAX_OBSTACLES + 1)}

\* Score files for the loaders: `bob zed` is a line whose score is no integer.
LoaderScoresFiles ==
    {<<>>,
     <<Wd("ann"), Nm(30), Wd("joe"), Nm(20)>>,
     <<Wd("bob"), Wd("zed"), Wd("ann"), Nm(30)>>,
     <<Wd("ann"), Nm(30), Wd("bob"), Wd("zed"), Wd("joe"), Nm(20), Wd("joe"), Nm(40)>>}

\* The scores a session can end with in the store checks.
StoreScores == {0, 10, 20, 40}

(***************************************************************************)
(* The state of a Game object and of the files it reads and writes.        *)
(***************************************************************************)
VARIABLES
    currentState, snake, food, obstacles, currentDirection, nextDirection,
    score, overallHighestScore, personalBestScore, moveTimer,
    playerName, leaderboard, selectedMenuItem, gameRunning, showGrid,
    scoresFile,       \* scores.txt
    userScoresFile,   \* user_scores.txt
    settingsFile,     \* settings.txt
    obstaclesFile,    \* obstacles.txt
    calls,            \* the member functions the last step called, in order
    exited            \* run() has returned and ~Game has run

vars == <<currentState, snake, food, obstacles, currentDirection, nextDirection,
          score, overallHighestScore, personalBestScore, moveTimer,
          playerName, leaderboard, selectedMenuItem, gameRunning, showGrid,
          scoresFile, userScoresFile, settingsFile, obstaclesFile, calls, exited>>

sessionVars == <<snake, food, currentDirection, nextDirection, score, moveTimer>>

bestVars == <<overallHighestScore, personalBestScore>>

fileVars == <<scoresFile, userScoresFile, settingsFile>>

States == {"MENU", "PLAYING", "PAUSED", "GAME_OVER", "LEADERBOARD", "SETTINGS"}

\* A reset that leaves the score of the session before.
resetKeepsScore ==
    /\ snake' = initializeSnake
    /\ currentDirection' = "UP"
    /\ nextDirection' = "UP"
    /\ food' \in generateFood(initializeSnake, obstacles, food)
    /\ score' = score
    /\ moveTimer' = 0

\* Game::reset: initializeSnake, generateFood, score and moveTimer zeroed.
reset ==
    /\ snake' = initializeSnake
    /\ currentDirection' = "UP"
    /\ nextDirection' = "UP"
    /\ food' \in generateFood(initializeSnake, obstacles, food)
    /\ score' = 0
    /\ moveTimer' = 0

\* A changeState that never reloads the leaderboard.
changeStateKeepsLeaderboard(newState, lb) ==
    /\ currentState' = newState
    /\ selectedMenuItem' = 0
    /\ leaderboard' = lb

\* A changeState that leaves the menu selection where it is.
changeStateKeepsSelection(newState, lb) ==
    /\ currentState' = newState
    /\ selectedMenuItem' = selectedMenuItem
    /\ leaderboard' \in IF newState = "LEADERBOARD" THEN loadLeaderboard(scoresFile) ELSE {lb}

\* Game::changeState, called with lb in the leaderboard member.
changeStateWith(newState, lb) ==
    /\ currentState' = newState
    /\ selectedMenuItem' = 0
    /\ leaderboard' \in IF newState = "LEADERBOARD" THEN loadLeaderboard(scoresFile) ELSE {lb}

changeState(newState) == changeStateWith(newState, leaderboard)

\* Game::Game: the member initialisers, then loadSettings, loadHighestScores,
\* loadLeaderboard, loadObstacles and reset.
Constructed(names, scoresFiles, userScoresFiles, settingsFiles, obstacleFiles) ==
    /\ currentState = "MENU"
    /\ selectedMenuItem = 0
    /\ gameRunning = TRUE
    /\ exited = FALSE
    /\ calls = <<>>
    /\ playerName \in names
    /\ scoresFile \in scoresFiles
    /\ userScoresFile \in userScoresFiles
    /\ settingsFile \in settingsFiles
    /\ obstaclesFile \in obstacleFiles
    /\ showGrid = loadSettings(settingsFile, TRUE)
    /\ overallHighestScore = loadHighestScores(userScoresFile, playerName)[1]
    /\ personalBestScore = loadHighestScores(userScoresFile, playerName)[2]
    /\ leaderboard \in loadLeaderboard(scoresFile)
    /\ obstacles = loadObstacles(obstaclesFile)
    /\ snake = initializeSnake
    /\ currentDirection = "UP"
    /\ nextDirection = "UP"
    /\ food \in emptyPositions(initializeSnake, obstacles)
    /\ score = 0
    /\ moveTimer = 0

\* The Game constructor of the program as played.
Init == Constructed(PlayerNames, ScoresFiles, UserScoresFiles, SettingsFiles, ObstacleFiles)

IsKeyPressed(key, keys) == key \in keys

\* One pass of run()'s loop is handleInput, then update when PLAYING; the
\* loop goes on while gameRunning and the window is open.
Looping == ~exited /\ gameRunning

\* Game::handleMenuInput.
handleMenuInput(keys) ==
    LET down == IsKeyPressed("DOWN", keys) \/ IsKeyPressed("S", keys)
        up == IsKeyPressed("UP", keys) \/ IsKeyPressed("W", keys)
        confirm == IsKeyPressed("ENTER", keys) \/ IsKeyPressed("SPACE", keys)
        sel1 == IF down THEN (selectedMenuItem + 1) % 4 ELSE selectedMenuItem
        sel2 == IF up THEN (sel1 - 1 + 4) % 4 ELSE sel1
    IN /\ Looping
       /\ currentState = "MENU"
       /\ UNCHANGED <<obstaclesFile, obstacles, playerName, showGrid, bestVars, fileVars, exited>>
       /\ IF confirm /\ sel2 = 0
          THEN reset /\ changeState("PLAYING") /\ UNCHANGED gameRunning
               /\ calls' = <<"reset", "changeState">>
          ELSE IF confirm /\ sel2 \in {1, 2}
          THEN /\ changeState(IF sel2 = 1 THEN "LEADERBOARD" ELSE "SETTINGS")
               /\ UNCHANGED <<sessionVars, gameRunning>>
               /\ calls' = <<"changeState">>
          ELSE /\ gameRunning' = ~(confirm /\ sel2 = 3)
               /\ selectedMenuItem' = sel2
               /\ UNCHANGED <<sessionVars, currentState, leaderboard>>
               /\ calls' = <<>>

\* A direction line that tests the buffered direction, not the current one.
turnAgainstBuffer(pressed, barred, dir, current, buffered) ==
    IF pressed /\ buffered # barred THEN dir ELSE buffered

\* A direction line without the test.
turnUnchecked(pressed, barred, dir, current, buffered) ==
    IF pressed THEN dir ELSE buffered

\* One of the four direction lines of handleGameInput:
\* if (pressed && currentDirection != barred) nextDirection = dir.
turn(pressed, barred, dir, current, buffered) ==
    IF pressed /\ current # barred THEN dir ELSE buffered

\* Game::handleGameInput.
handleGameInput(keys) ==
    LET pause == IsKeyPressed("P", keys) \/ IsKeyPressed("SPACE", keys)
        quit == IsKeyPressed("Q", keys) \/ IsKeyPressed("ESCAPE", keys)
        n1 == turn(IsKeyPressed("W", keys) \/ IsKeyPressed("UP", keys),
                   "DOWN", "UP", currentDirection, nextDirection)
        n2 == turn(IsKeyPressed("S", keys) \/ IsKeyPressed("DOWN", keys),
                   "UP", "DOWN", currentDirection, n1)
        n3 == turn(IsKeyPressed("A", keys) \/ IsKeyPressed("LEFT", keys),
                   "RIGHT", "LEFT", currentDirection, n2)
        n4 == turn(IsKeyPressed("D", keys) \/ IsKeyPressed("RIGHT", keys),
                   "LEFT", "RIGHT", currentDirection, n3)
    IN /\ Looping
       /\ currentState = "PLAYING"
       /\ UNCHANGED <<obstaclesFile, obstacles, playerName, showGrid, bestVars, fileVars, exited,
                      gameRunning, snake, food, currentDirection, score, moveTimer>>
       /\ IF pause \/ quit
          THEN /\ changeState(IF pause THEN "PAUSED" ELSE "MENU")
               /\ UNCHANGED nextDirection
               /\ calls' = <<"changeState">>
          ELSE /\ nextDirection' = n4
               /\ UNCHANGED <<currentState, selectedMenuItem, leaderboard>>
               /\ calls' = <<>>

\* A handleLeaderboardInput that goes back to the game instead of the menu.
handleLeaderboardInputBackToGame(keys) ==
    /\ Looping
    /\ currentState = "LEADERBOARD"
    /\ UNCHANGED <<obstaclesFile, obstacles, playerName, showGrid, bestVars, fileVars, exited,
                   gameRunning, sessionVars>>
    /\ IF IsKeyPressed("ESCAPE", keys) \/ IsKeyPressed("Q", keys) \/ IsKeyPressed("ENTER", keys)
       THEN changeState("PLAYING") /\ calls' = <<"changeState">>
       ELSE UNCHANGED <<currentState, selectedMenuItem, leaderboard>> /\ calls' = <<>>

\* Game::handleLeaderboardInput.
handleLeaderboardInput(keys) ==
    /\ Looping
    /\ currentState = "LEADERBOARD"
    /\ UNCHANGED <<obstaclesFile, obstacles, playerName, showGrid, bestVars, fileVars, exited,
                   gameRunning, sessionVars>>
    /\ IF IsKeyPressed("ESCAPE", keys) \/ IsKeyPressed("Q", keys) \/ IsKeyPressed("ENTER", keys)
       THEN changeState("MENU") /\ calls' = <<"changeState">>
       ELSE UNCHANGED <<currentState, selectedMenuItem, leaderboard>> /\ calls' = <<>>

\* Game::handleSettingsInput; opened: whether saveSettings could open settings.txt.
handleSettingsInput(keys, opened) ==
    LET toggle == IsKeyPressed("ENTER", keys) \/ IsKeyPressed("SPACE", keys)
        back == IsKeyPressed("ESCAPE", keys) \/ IsKeyPressed("Q", keys)
        grid == IF toggle THEN ~showGrid ELSE showGrid
    IN /\ Looping
       /\ currentState = "SETTINGS"
       /\ UNCHANGED <<obstaclesFile, obstacles, playerName, bestVars, scoresFile,
                      userScoresFile, exited,
                      gameRunning, sessionVars>>
       /\ showGrid' = grid
       /\ IF back
          THEN /\ settingsFile' = saveSettings(settingsFile, grid, opened)
               /\ changeState("MENU")
               /\ calls' = <<"saveSettings", "changeState">>
          ELSE /\ UNCHANGED <<settingsFile, currentState, selectedMenuItem, leaderboard>>
               /\ calls' = <<>>

\* Game::handleInput, case GameState::GAME_OVER: the three ifs run in turn.
handleGameOverInput(keys) ==
    LET restart == IsKeyPressed("R", keys)
        quit == IsKeyPressed("Q", keys) \/ IsKeyPressed("ESCAPE", keys)
        board == IsKeyPressed("L", keys)
    IN /\ Looping
       /\ currentState = "GAME_OVER"
       /\ UNCHANGED <<obstaclesFile, obstacles, playerName, showGrid, bestVars, fileVars,
                      exited, gameRunning>>
       /\ IF restart THEN reset ELSE UNCHANGED sessionVars
       /\ IF board THEN changeState("LEADERBOARD")
          ELSE IF quit THEN changeState("MENU")
          ELSE IF restart THEN changeState("PLAYING")
          ELSE UNCHANGED <<currentState, selectedMenuItem, leaderboard>>
       /\ calls' = (IF restart THEN <<"reset", "changeState">> ELSE <<>>)
                   \o (IF quit THEN <<"changeState">> ELSE <<>>)
                   \o (IF board THEN <<"changeState">> ELSE <<>>)

\* A PAUSED handler whose quit records the score of the session as a best.
handlePausedInputRecords(keys) ==
    LET resume == IsKeyPressed("P", keys) \/ IsKeyPressed("SPACE", keys)
        quit == IsKeyPressed("Q", keys) \/ IsKeyPressed("ESCAPE", keys)
    IN /\ Looping
       /\ currentState = "PAUSED"
       /\ UNCHANGED <<obstaclesFile, obstacles, playerName, showGrid, fileVars, exited,
                      gameRunning, sessionVars>>
       /\ personalBestScore' = IF quit THEN Max(personalBestScore, score) ELSE personalBestScore
       /\ overallHighestScore' = IF quit THEN Max(overallHighestScore, score)
                                 ELSE overallHighestScore
       /\ IF quit THEN changeState("MENU")
          ELSE IF resume THEN changeState("PLAYING")
          ELSE UNCHANGED <<currentState, selectedMenuItem, leaderboard>>
       /\ calls' = (IF resume THEN <<"changeState">> ELSE <<>>)
                   \o (IF quit THEN <<"changeState">> ELSE <<>>)

\* Game::handleInput, case GameState::PAUSED: the two ifs run in turn.
handlePausedInput(keys) ==
    LET resume == IsKeyPressed("P", keys) \/ IsKeyPressed("SPACE", keys)
        quit == IsKeyPressed("Q", keys) \/ IsKeyPressed("ESCAPE", keys)
    IN /\ Looping
       /\ currentState = "PAUSED"
       /\ UNCHANGED <<obstaclesFile, obstacles, playerName, showGrid, bestVars, fileVars, exited,
                      gameRunning, sessionVars>>
       /\ IF quit THEN changeState("MENU")
          ELSE IF resume THEN changeState("PLAYING")
          ELSE UNCHANGED <<currentState, selectedMenuItem, leaderboard>>
       /\ calls' = (IF resume THEN <<"changeState">> ELSE <<>>)
                   \o (IF quit THEN <<"changeState">> ELSE <<>>)

\* A savePersonalBest that leaves overallHighestScore alone.
savePersonalBestOnly(file, player, sc, personal, overall, opened) ==
    IF sc <= personal
    THEN [file |-> file, personal |-> personal, overall |-> overall]
    ELSE [file |-> personalBestFileAfter(file, player, sc, opened),
          personal |-> sc,
          overall |-> overall]

\* A savePersonalBest that records nothing.
savePersonalBestSkipped(file, player, sc, personal, overall, opened) ==
    [file |-> file, personal |-> personal, overall |-> overall]

\* A savePersonalBest without the early return on a score that is no better.
savePersonalBestAlways(file, player, sc, personal, overall, opened) ==
    [file |-> personalBestFileAfter(file, player, sc, opened),
     personal |-> sc,
     overall |-> IF sc > overall THEN sc ELSE overall]

\* Game::savePersonalBest: the file and the two bests it leaves.
savePersonalBest(file, player, sc, personal, overall, opened) ==
    IF sc <= personal
    THEN [file |-> file, personal |-> personal, overall |-> overall]
    ELSE [file |-> personalBestFileAfter(file, player, sc, opened),
          personal |-> sc,
          overall |-> IF sc > overall THEN sc ELSE overall]

\* A move that leaves the last segment on the snake.
PopBackNot(body) == body

\* snake.pop_back().
PopBack(body) == SubSeq(body, 1, Len(body) - 1)

\* A test of the last segment against the food.
eatsAtTail(body, f) == body[Len(body)] = f

\* snake.front() == food.
eats(body, f) == Head(body) = f

\* Game::update(deltaTime), which run() calls when the state is PLAYING.
\* openedLb, openedPb: whether scores.txt and user_scores.txt could be opened
\* for writing.
update(deltaTime, openedLb, openedPb) ==
    LET timer == moveTimer + deltaTime
        currentSpeed == calculateSpeed(score)
        moved == moveSnake(snake, nextDirection)
    IN /\ Looping
       /\ currentState = "PLAYING"
       /\ UNCHANGED <<obstaclesFile, obstacles, playerName, showGrid, settingsFile, exited,
                      gameRunning,
                      nextDirection>>
       /\ IF ~timerElapsed(timer, currentSpeed)
          THEN /\ moveTimer' = timer
               /\ UNCHANGED <<snake, food, currentDirection, score, currentState,
                              selectedMenuItem, leaderboard, bestVars, scoresFile,
                              userScoresFile>>
               /\ calls' = <<>>
          ELSE /\ moveTimer' = 0
               /\ currentDirection' = nextDirection
               /\ IF checkCollision(moved, obstacles)
                  THEN /\ snake' = moved
                       /\ UNCHANGED <<food, score>>
                       /\ \E newLb \in saveToLeaderboard(leaderboard, playerName, score) :
                             /\ scoresFile' = leaderboardFileAfter(scoresFile, newLb, score, openedLb)
                             /\ changeStateWith("GAME_OVER", newLb)
                       /\ LET pb == savePersonalBest(userScoresFile, playerName, score,
                                                     personalBestScore, overallHighestScore,
                                                     openedPb)
                          IN /\ userScoresFile' = pb.file
                             /\ personalBestScore' = pb.personal
                             /\ overallHighestScore' = pb.overall
                       /\ calls' = <<"saveToLeaderboard", "savePersonalBest", "changeState">>
                  ELSE /\ UNCHANGED <<currentState, selectedMenuItem, leaderboard, bestVars,
                                      scoresFile, userScoresFile>>
                       /\ calls' = <<>>
                       /\ IF eats(moved, food)
                          THEN /\ score < 10 * MaxFood
                               /\ score' = score + 10
                               /\ snake' = moved
                               /\ food' \in generateFood(moved, obstacles, food)
                          ELSE /\ snake' = PopBack(moved)
                               /\ UNCHANGED <<food, score>>

\* run() returns (the window was closed, or gameRunning is false) and ~Game
\* runs saveSessionBestScore and saveSettings.
Shutdown(openedUs, openedSet) ==
    /\ ~exited
    /\ exited' = TRUE
    /\ userScoresFile' = saveSessionBestScore(userScoresFile, openedUs)
    /\ settingsFile' = saveSettings(settingsFile, showGrid, openedSet)
    /\ calls' = <<"saveSessionBestScore", "saveSettings">>
    /\ UNCHANGED <<currentState, sessionVars, obstaclesFile, obstacles, bestVars, playerName,
                   leaderboard,
                   selectedMenuItem, gameRunning, showGrid, scoresFile>>

MenuInput == \E keys \in KeySets({"S", "W", "ENTER"}) : handleMenuInput(keys)

GameInput == \E keys \in KeySets({"P", "Q", "W", "S", "A", "D"}) : handleGameInput(keys)

LeaderboardInput == \E keys \in KeySets({"Q", "ENTER"}) : handleLeaderboardInput(keys)

SettingsInput(opens) ==
    \E keys \in KeySets({"ENTER", "Q"}), opened \in opens :
        handleSettingsInput(keys, opened)

GameOverInput == \E keys \in KeySets({"R", "Q", "L"}) : handleGameOverInput(keys)

PausedInput == \E keys \in KeySets({"P", "Q"}) : handlePausedInput(keys)

Update(opens) ==
    \E deltaTime \in DeltaTimes, openedLb \in opens, openedPb \in opens :
        update(deltaTime, openedLb, openedPb)

Exit(opens) == \E openedUs \in opens, openedSet \in opens : Shutdown(openedUs, openedSet)

\* A step of the program when an ofstream's open gives one of opens.
Step(opens) ==
    \/ MenuInput
    \/ GameInput
    \/ LeaderboardInput
    \/ SettingsInput(opens)
    \/ GameOverInput
    \/ PausedInput
    \/ Update(opens)
    \/ Exit(opens)

\* The program with every file writable.
Next == Step({TRUE})

Spec == Init /\ [][Next]_vars

(***************************************************************************)
(* The program started over any settings.txt, every file writable.         *)
(***************************************************************************)
InitSettings ==
    Constructed(PlayerNames, ScoresFiles, UserScoresFiles, AnySettingsFiles, ObstacleFiles)

SpecSettings == InitSettings /\ [][Next]_vars

(***************************************************************************)
(* The program started by any player over any of the scenario's            *)
(* scores.txt, every file writable.                                        *)
(***************************************************************************)
InitScenario ==
    Constructed(StorePlayerNames, ScenarioScoresFiles, UserScoresFiles, SettingsFiles,
                ObstacleFiles)

SpecScenario == InitScenario /\ [][Next]_vars

(***************************************************************************)
(* The program started in a room that the snake fills by eating, every     *)
(* file writable.                                                          *)
(***************************************************************************)
InitRoom ==
    Constructed(PlayerNames, ScoresFiles, UserScoresFiles, SettingsFiles, RoomObstacleFiles)

SpecRoom == InitRoom /\ [][Next]_vars

(***************************************************************************)
(* The program started over any of the best-score files, every file        *)
(* writable.                                                               *)
(***************************************************************************)
InitBest ==
    Constructed(PlayerNames, ScoresFiles, BestUserScoresFiles, SettingsFiles, ObstacleFiles)

SpecBest == InitBest /\ [][Next]_vars

(***************************************************************************)
(* The movement timer on its own, over the scores a long session goes      *)
(* through: update with the snake left where it is, where a move that the  *)
(* timer grants may or may not reach the food and add 10 to the score.     *)
(***************************************************************************)
SpeedDeltaTimes == {10, 40}

InitSpeed ==
    /\ Init
    /\ food = <<GRID_WIDTH \div 2, GRID_HEIGHT \div 2 - 2>>

AccumulateTime(deltaTime, ate) ==
    /\ IF timerElapsed(moveTimer + deltaTime, calculateSpeed(score))
       THEN /\ moveTimer' = 0
            /\ score' = IF ate /\ score + 10 <= MaxSpeedScore THEN score + 10 ELSE score
       ELSE /\ moveTimer' = moveTimer + deltaTime
            /\ score' = score
    /\ calls' = <<"calculateSpeed">>
    /\ UNCHANGED <<currentState, snake, food, obstaclesFile, obstacles, currentDirection,
                   nextDirection, bestVars, playerName, leaderboard,
                   selectedMenuItem, gameRunning, showGrid, fileVars, exited>>

NextSpeed == \E deltaTime \in SpeedDeltaTimes, ate \in BOOLEAN : AccumulateTime(deltaTime, ate)

SpecSpeed == InitSpeed /\ [][NextSpeed]_vars

(***************************************************************************)
(* The program when no store can be opened for writing: every ofstream     *)
(* fails to open, so what is in memory and what the files hold part ways.  *)
(***************************************************************************)
InitRO ==
    Constructed(PlayerNames, ReadOnlyScoresFiles, UserScoresFiles, SettingsFiles,
                ObstacleFiles)

NextRO == Step({FALSE})

SpecRO == InitRO /\ [][NextRO]_vars

(***************************************************************************)
(* The loaders on their own: a Game constructed over files with malformed  *)
(* and out-of-bounds lines, and each loader run again as the next run of   *)
(* the program runs it.                                                    *)
(***************************************************************************)
InitLoad ==
    /\ Constructed(PlayerNames, LoaderScoresFiles, LoaderScoresFiles, SettingsFiles,
                   LoaderObstacleFiles)
    /\ food = CHOOSE pos \in emptyPositions(initializeSnake, obstacles) : TRUE

ReloadObstacles ==
    /\ obstacles' = loadObstacles(obstaclesFile)
    /\ calls' = <<"loadObstacles">>
    /\ UNCHANGED <<currentState, sessionVars, obstaclesFile, bestVars, playerName,
                   leaderboard, selectedMenuItem, gameRunning, showGrid, fileVars, exited>>

(***************************************************************************)
(* The leaderboard store on its own: a Game constructed over any of the    *)
(* StoreFiles for any of the StorePlayerNames, on which saveToLeaderboard  *)
(* is called with any final score, scores.txt opening for writing or not,  *)
(* and loadLeaderboard is called again.                                    *)
(***************************************************************************)
InitLB ==
    /\ Constructed(StorePlayerNames, StoreFiles, UserScoresFiles, SettingsFiles, ObstacleFiles)
    /\ food = <<GRID_WIDTH \div 2, GRID_HEIGHT \div 2 - 2>>

RecordScore(sc, opened) ==
    /\ score' = sc
    /\ leaderboard' \in saveToLeaderboard(leaderboard, playerName, sc)
    /\ scoresFile' = leaderboardFileAfter(scoresFile, leaderboard', sc, opened)
    /\ calls' = <<"saveToLeaderboard">>
    /\ UNCHANGED <<currentState, snake, food, obstaclesFile, obstacles, currentDirection,
                   nextDirection,
                   overallHighestScore, personalBestScore, moveTimer, playerName,
                   selectedMenuItem, gameRunning, showGrid, userScoresFile, settingsFile,
                   exited>>

ReloadLeaderboard ==
    /\ leaderboard' \in loadLeaderboard(scoresFile)
    /\ calls' = <<"loadLeaderboard">>
    /\ UNCHANGED <<currentState, snake, food, obstaclesFile, obstacles, currentDirection,
                   nextDirection,
                   score, overallHighestScore, personalBestScore, moveTimer, playerName,
                   selectedMenuItem, gameRunning, showGrid, fileVars, exited>>

NextLB ==
    \/ \E sc \in StoreScores, opened \in BOOLEAN : RecordScore(sc, opened)
    \/ ReloadLeaderboard

SpecLB == InitLB /\ [][NextLB]_vars

(***************************************************************************)
(* The best-score store on its own: a Game constructed over any of the     *)
(* PBFiles for any of the StorePlayerNames, on which savePersonalBest is   *)
(* called with any final score and saveSessionBestScore is called,         *)
(* user_scores.txt opening for writing or not, and loadHighestScores is    *)
(* called again as the next run of the program does.                       *)
(***************************************************************************)
InitPB ==
    /\ Constructed(StorePlayerNames, ScoresFiles, PBFiles, SettingsFiles, ObstacleFiles)
    /\ food = <<GRID_WIDTH \div 2, GRID_HEIGHT \div 2 - 2>>

RecordPersonalBest(sc, opened) ==
    LET pb == savePersonalBest(userScoresFile, playerName, sc, personalBestScore,
                               overallHighestScore, opened)
    IN /\ score' = sc
       /\ userScoresFile' = pb.file
       /\ personalBestScore' = pb.personal
       /\ overallHighestScore' = pb.overall
       /\ calls' = <<"savePersonalBest">>
       /\ UNCHANGED <<currentState, snake, food, obstaclesFile, obstacles, currentDirection,
                      nextDirection, moveTimer, playerName, leaderboard, selectedMenuItem,
                      gameRunning, showGrid, scoresFile, settingsFile, exited>>

MergeSessionBest(opened) ==
    /\ userScoresFile' = saveSessionBestScore(userScoresFile, opened)
    /\ calls' = <<"saveSessionBestScore">>
    /\ UNCHANGED <<currentState, sessionVars, obstaclesFile, obstacles, bestVars, playerName,
                   leaderboard, selectedMenuItem, gameRunning, showGrid, scoresFile,
                   settingsFile, exited>>

ReloadHighestScores ==
    /\ overallHighestScore' = loadHighestScores(userScoresFile, playerName)[1]
    /\ personalBestScore' = loadHighestScores(userScoresFile, playerName)[2]
    /\ calls' = <<"loadHighestScores">>
    /\ UNCHANGED <<currentState, sessionVars, obstaclesFile, obstacles, playerName,
                   leaderboard, selectedMenuItem, gameRunning, showGrid, fileVars, exited>>

NextPB ==
    \/ \E sc \in StoreScores, opened \in BOOLEAN : RecordPersonalBest(sc, opened)
    \/ \E opened \in BOOLEAN : MergeSessionBest(opened)
    \/ ReloadHighestScores

SpecPB == InitPB /\ [][NextPB]_vars

NextLoad ==
    \/ ReloadObstacles
    \/ ReloadHighestScores
    \/ ReloadLeaderboard

SpecLoad == InitLoad /\ [][NextLoad]_vars

(***************************************************************************)
(* Game::drawGameOver, which draw() calls in GAME_OVER: the conditions of  *)
(* the two banners.                                                        *)
(***************************************************************************)
newPersonalBestBanner == score > personalBestScore /\ personalBestScore > 0

newHighestScoreBanner ==
    /\ ~newPersonalBestBanner
    /\ score > overallHighestScore /\ overallHighestScore > 0

(***************************************************************************)
(* Vocabulary of the properties.                                           *)
(***************************************************************************)
\* update(deltaTime, ...) moves the snake: the accumulated time reaches the interval.
Ticks(deltaTime) == moveTimer + deltaTime >= calculateSpeed(score)

\* The step is a tick of update.
TickStep == \E deltaTime \in DeltaTimes : Ticks(deltaTime) /\ update(deltaTime, TRUE, TRUE)

\* The cell one step from pos in direction dir.
Ahead(pos, dir) ==
    <<pos[1] + (IF dir = "RIGHT" THEN 1 ELSE IF dir = "LEFT" THEN -1 ELSE 0),
      pos[2] + (IF dir = "DOWN" THEN 1 ELSE IF dir = "UP" THEN -1 ELSE 0)>>

Cells(seq) == {seq[i] : i \in 1..Len(seq)}

\* The head that a tick puts in front of the snake, and whether it collides:
\* outside the grid, on a segment of the snake as it is before the tick (the
\* tail included), or on an obstacle.
NewHead == Ahead(snake[1], nextDirection)

NewHeadCollides ==
    \/ NewHead[1] < 0 \/ NewHead[1] > GRID_WIDTH - 1
    \/ NewHead[2] < 0 \/ NewHead[2] > GRID_HEIGHT - 1
    \/ NewHead \in Cells(snake)
    \/ NewHead \in Cells(obstacles)

\* The key of a direction command.
DirKey(dir) == CASE dir = "UP" -> "W" [] dir = "DOWN" -> "S" [] dir = "LEFT" -> "A" [] dir = "RIGHT" -> "D"

(***************************************************************************)
(* C1.  The game starts in MENU and the state changes only along the edges *)
(* MENU -> PLAYING, LEADERBOARD, SETTINGS (confirm on item 0, 1, 2);       *)
(* PLAYING -> PAUSED (pause), MENU (quit), GAME_OVER (a tick);             *)
(* PAUSED -> PLAYING (pause), MENU (quit); GAME_OVER -> PLAYING (restart), *)
(* MENU (quit), LEADERBOARD (L); LEADERBOARD -> MENU (quit or confirm);    *)
(* SETTINGS -> MENU (quit).  gameRunning is cleared only in MENU, by       *)
(* confirming item 3, and is never set again.                              *)
(***************************************************************************)
Edges ==
    {<<"MENU", "PLAYING">>, <<"MENU", "LEADERBOARD">>, <<"MENU", "SETTINGS">>,
     <<"PLAYING", "PAUSED">>, <<"PLAYING", "MENU">>, <<"PLAYING", "GAME_OVER">>,
     <<"PAUSED", "PLAYING">>, <<"PAUSED", "MENU">>,
     <<"GAME_OVER", "PLAYING">>, <<"GAME_OVER", "MENU">>, <<"GAME_OVER", "LEADERBOARD">>,
     <<"LEADERBOARD", "MENU">>, <<"SETTINGS", "MENU">>}

\* What one intent alone does to the state.
IntentEdges ==
    /\ handleMenuInput({"ENTER"}) =>
          /\ currentState' = CASE selectedMenuItem = 0 -> "PLAYING"
                               [] selectedMenuItem = 1 -> "LEADERBOARD"
                               [] selectedMenuItem = 2 -> "SETTINGS"
                               [] selectedMenuItem = 3 -> "MENU"
          /\ gameRunning' = (selectedMenuItem # 3)
    /\ handleMenuInput({"S"}) \/ handleMenuInput({"W"}) => currentState' = "MENU" /\ gameRunning'
    /\ handleGameInput({"P"}) => currentState' = "PAUSED"
    /\ handleGameInput({"Q"}) => currentState' = "MENU"
    /\ (\E dir \in Directions : handleGameInput({DirKey(dir)})) => currentState' = "PLAYING"
    /\ handlePausedInput({"P"}) => currentState' = "PLAYING"
    /\ handlePausedInput({"Q"}) => currentState' = "MENU"
    /\ handleGameOverInput({"R"}) => currentState' = "PLAYING"
    /\ handleGameOverInput({"Q"}) => currentState' = "MENU"
    /\ handleGameOverInput({"L"}) => currentState' = "LEADERBOARD"
    /\ handleLeaderboardInput({"Q"}) \/ handleLeaderboardInput({"ENTER"}) => currentState' = "MENU"
    /\ handleSettingsInput({"Q"}, TRUE) => currentState' = "MENU"
    /\ handleSettingsInput({"ENTER"}, TRUE) => currentState' = "SETTINGS"

C1_StateMachine ==
    /\ currentState = "MENU"
    /\ gameRunning = TRUE
    /\ [][/\ currentState' # currentState => <<currentState, currentState'>> \in Edges
          /\ <<currentState, currentState'>> = <<"PLAYING", "GAME_OVER">> => TickStep
          /\ IntentEdges
          /\ gameRunning' # gameRunning =>
                /\ gameRunning /\ currentState = "MENU" /\ currentState' = "MENU"
                /\ \E keys \in KeySets({"W", "S", "ENTER"}) :
                      /\ handleMenuInput(keys)
                      /\ "ENTER" \in keys
                      /\ selectedMenuItem' = 3]_vars

\* The program was left through the menu after a session that ended in a collision.
C1_Witness == exited /\ ~gameRunning /\ personalBestScore > 0 /\ currentState = "MENU"

(***************************************************************************)
(* C2.  GAME_OVER is entered only from PLAYING and only by a tick whose    *)
(* new head collides; every such tick calls saveToLeaderboard, then        *)
(* savePersonalBest, then changeState, records the session's score in the  *)
(* leaderboard and in the personal best, and leaves the score and the food *)
(* as they were, with the new head on the snake and no segment removed.    *)
(***************************************************************************)
C2_GameOverEntry ==
    [][/\ (currentState # "GAME_OVER" /\ currentState' = "GAME_OVER") =>
             currentState = "PLAYING" /\ TickStep /\ NewHeadCollides
       /\ (TickStep /\ NewHeadCollides) =>
             /\ currentState' = "GAME_OVER"
             /\ calls' = <<"saveToLeaderboard", "savePersonalBest", "changeState">>
             /\ score' = score /\ food' = food
             /\ snake' = <<NewHead>> \o snake
             /\ personalBestScore' = Max(personalBestScore, score)
             /\ overallHighestScore' = Max(overallHighestScore, score)
             /\ score > 0 =>
                   \E i \in 1..Len(leaderboard') :
                       /\ leaderboard'[i].name = playerName
                       /\ leaderboard'[i].score >= score]_vars

\* A session with a score has just ended in a collision.
C2_Witness ==
    /\ currentState = "GAME_OVER" /\ score > 0
    /\ calls = <<"saveToLeaderboard", "savePersonalBest", "changeState">>

(***************************************************************************)
(* C3.  checkCollision on the body with the new head in front, before any  *)
(* tail removal, is true exactly when the head is outside the grid, on a   *)
(* non-head segment (the tail that a non-eating tick would remove          *)
(* included) or on an obstacle; and a tick ends the session exactly then.  *)
(***************************************************************************)
C3_CheckCollision ==
    [][/\ \A dir \in Directions :
             LET head == Ahead(snake[1], dir)
             IN checkCollision(<<head>> \o snake, obstacles)
                    = \/ head[1] < 0 \/ head[1] > GRID_WIDTH - 1
                      \/ head[2] < 0 \/ head[2] > GRID_HEIGHT - 1
                      \/ head \in Cells(snake)
                      \/ head \in Cells(obstacles)
       /\ TickStep => (currentState' = "GAME_OVER") = NewHeadCollides]_vars

\* A session ended with the new head on the cell of the tail.
C3_Witness ==
    /\ currentState = "GAME_OVER"
    /\ snake[1] = snake[Len(snake)]
    /\ \A i \in 2..Len(snake) - 1 : snake[i] # snake[1]

C5_DirectionBuffer ==
    [][/\ \A dir \in Directions :
             handleGameInput({DirKey(dir)}) =>
                 nextDirection' = IF dir # Opposite(currentDirection) THEN dir ELSE nextDirection
       /\ TickStep => currentDirection' = nextDirection]_vars

(***************************************************************************)
(* C5 as stated.  After a command opposite to the current direction the    *)
(* tick leaves the current direction unchanged, whatever was commanded     *)
(* before: the direction the tick will commit is the current one.          *)
(***************************************************************************)
C5_AsStated ==
    [][/\ \A dir \in Directions :
             handleGameInput({DirKey(dir)}) =>
                 nextDirection' = IF dir # Opposite(currentDirection) THEN dir ELSE currentDirection
       /\ TickStep => currentDirection' = nextDirection]_vars

\* A turn was buffered and committed, and another one is buffered.
C5_Witness ==
    currentState = "PLAYING" /\ currentDirection = "LEFT" /\ nextDirection = "DOWN"

(***************************************************************************)
(* C6.  The buffered direction is never the opposite of the current one;   *)
(* the direction a tick commits is never the opposite of the direction of  *)
(* the tick before, and the new head is never on the cell of the neck.     *)
(***************************************************************************)
C6_NoReverse ==
    /\ nextDirection # Opposite(currentDirection)
    /\ [][/\ nextDirection' # Opposite(currentDirection')
          /\ TickStep =>
                /\ currentDirection' # Opposite(currentDirection)
                /\ snake'[1] # snake[2]]_vars

\* The snake has turned round in three ticks, each commanded in time.
C6_Witness == currentState = "PLAYING" /\ currentDirection = "DOWN" /\ nextDirection = "RIGHT"

(***************************************************************************)
(* C7.  Food placed by reset or after a food was eaten lies in the grid,   *)
(* off every snake segment (the new head included) and off every obstacle, *)
(* and every such cell can be the one chosen; while PLAYING or PAUSED the  *)
(* food is never on the snake or on an obstacle.                           *)
(***************************************************************************)
FreeCells(body) ==
    {pos \in (0..GRID_WIDTH - 1) \X (0..GRID_HEIGHT - 1) :
        pos \notin Cells(body) /\ pos \notin Cells(obstacles)}

\* The snake a session starts with.
StartSnake ==
    << <<GRID_WIDTH \div 2, GRID_HEIGHT \div 2>>,
       <<GRID_WIDTH \div 2, GRID_HEIGHT \div 2 + 1>>,
       <<GRID_WIDTH \div 2, GRID_HEIGHT \div 2 + 2>> >>

C8_SessionReset ==
    [][/\ (currentState \in {"MENU", "GAME_OVER"} /\ currentState' = "PLAYING") =>
             /\ score' = 0 /\ moveTimer' = 0
             /\ snake' = StartSnake
             /\ currentDirection' = "UP" /\ nextDirection' = "UP"
             /\ food' \in FreeCells(StartSnake)
       /\ (currentState = "PAUSED" \/ currentState' = "PAUSED") =>
             UNCHANGED <<snake, food, score, currentDirection, nextDirection>>]_vars

\* A session with a score was paused and has been resumed.
C8_Witness == currentState = "PLAYING" /\ calls = <<"changeState">> /\ score = 10

(***************************************************************************)
(* Vocabulary of the store properties.                                     *)
(***************************************************************************)
\* The entries a load of the file yields, whatever order the sort leaves.
LoadedEntries(file) == Cells(MapEntries(MergeMax(EmptyMap, ReadPairs(file))))

Names(lb) == {lb[i].name : i \in 1..Len(lb)}

EntryOf(lb, player) == {lb[i] : i \in {k \in 1..Len(lb) : lb[k].name = player}}

Lowest(lb) == {e \in Cells(lb) : \A other \in Cells(lb) : e.score <= other.score}

\* The player's entry in lb is e, or the truncation of a full lb has dropped it
\* below entries that score no less.
KeptOrTruncated(lb, e) ==
    \/ EntryOf(lb, e.name) = {e}
    \/ /\ EntryOf(lb, e.name) = {}
       /\ Len(lb) = MAX_LEADERBOARD_ENTRIES
       /\ \A other \in Cells(lb) : other.score >= e.score

(***************************************************************************)
(* C9 as stated.  saveToLeaderboard with score > 0 upserts keeping the     *)
(* higher of the existing and the new score: an entry of the player with   *)
(* a score >= the new one is unchanged, a lower one is updated, a missing  *)
(* one is added, and the list is sorted descending (and cut to its top     *)
(* MAX_LEADERBOARD_ENTRIES); scores.txt is then rewritten so that loading  *)
(* it yields the same entries in the same descending order.  With          *)
(* score = 0 neither the leaderboard nor scores.txt changes.               *)
(***************************************************************************)
C9_AsStated ==
    [][\A sc \in StoreScores :
          RecordScore(sc, TRUE) =>
             IF sc > 0
             THEN /\ IsSorted(leaderboard')
                  /\ \A e \in EntryOf(leaderboard, playerName) :
                        KeptOrTruncated(leaderboard',
                                        [name |-> playerName, score |-> Max(e.score, sc)])
                  /\ EntryOf(leaderboard, playerName) = {} =>
                        KeptOrTruncated(leaderboard', [name |-> playerName, score |-> sc])
                  /\ leaderboard' \in loadLeaderboard(scoresFile')
             ELSE UNCHANGED <<leaderboard, scoresFile>>]_vars

(***************************************************************************)
(* C10.  When the leaderboard holds MAX_LEADERBOARD_ENTRIES distinct       *)
(* players and the player is not among them: a final score lower than      *)
(* every entry leaves the entries of the leaderboard as they were, and the *)
(* entries scores.txt loads to are those entries once it is written (and   *)
(* stay those entries if they were before); a final score higher than the  *)
(* lowest entry replaces one entry of the lowest score by the player's and *)
(* keeps all the others.                                                   *)
(***************************************************************************)
C10_Truncation ==
    [][\A sc \in StoreScores, opened \in BOOLEAN :
          (/\ RecordScore(sc, opened)
           /\ Len(leaderboard) = MAX_LEADERBOARD_ENTRIES
           /\ Cardinality(Names(leaderboard)) = MAX_LEADERBOARD_ENTRIES
           /\ playerName \notin Names(leaderboard)) =>
             /\ IsSorted(leaderboard')
             /\ (\A e \in Cells(leaderboard) : sc < e.score) =>
                   /\ Cells(leaderboard') = Cells(leaderboard)
                   /\ Len(leaderboard') = MAX_LEADERBOARD_ENTRIES
                   /\ opened /\ sc > 0 => LoadedEntries(scoresFile') = Cells(leaderboard)
                   /\ LoadedEntries(scoresFile) = Cells(leaderboard) =>
                         LoadedEntries(scoresFile') = Cells(leaderboard)
             /\ (\E e \in Cells(leaderboard) : sc > e.score) =>
                   /\ Len(leaderboard') = MAX_LEADERBOARD_ENTRIES
                   /\ \E out \in Lowest(leaderboard) :
                         Cells(leaderboard')
                             = (Cells(leaderboard) \ {out})
                                   \cup {[name |-> playerName, score |-> sc]}]_vars

\* The player's entry has come in at the top of a full leaderboard while
\* scores.txt, which could not be written, still lists the full leaderboard of
\* the other players.
C10_Witness ==
    /\ calls = <<"saveToLeaderboard">>
    /\ Len(leaderboard) = MAX_LEADERBOARD_ENTRIES
    /\ leaderboard[1] = [name |-> playerName, score |-> 40]
    /\ Cardinality(LoadedEntries(scoresFile)) = MAX_LEADERBOARD_ENTRIES
    /\ playerName \notin {e.name : e \in LoadedEntries(scoresFile)}

(***************************************************************************)
(* C11 as stated.  In every state the leaderboard in memory is sorted      *)
(* descending by score, has at most one entry per player name and has at   *)
(* most MAX_LEADERBOARD_ENTRIES entries, whatever scores.txt contains.     *)
(***************************************************************************)
C11_AsStated ==
    /\ IsSorted(leaderboard)
    /\ Cardinality(Names(leaderboard)) = Len(leaderboard)
    /\ Len(leaderboard) <= MAX_LEADERBOARD_ENTRIES

(***************************************************************************)
(* Vocabulary of the best-score store properties.                          *)
(***************************************************************************)
\* The records a store holds, read as they are laid out when written: the
\* words of a name, then its score.
RECURSIVE RecordsFrom(_, _)
RecordsFrom(toks, name) ==
    IF toks = <<>> THEN <<>>
    ELSE IF IsNum(Head(toks))
         THEN (IF name = <<>> THEN <<>> ELSE <<[name |-> name, score |-> Head(toks).num]>>)
                  \o RecordsFrom(Tail(toks), <<>>)
         ELSE RecordsFrom(Tail(toks), Append(name, Head(toks)))

Records(file) == RecordsFrom(file, <<>>)

SetMax(S) == CHOOSE m \in S : \A x \in S : x <= m

\* The maximum score the records give a name, 0 if they give none.
BestOf(recs, name) == SetMax({0} \cup {e.score : e \in EntryOf(recs, name)})

\* The maximum score of all the records, 0 if there is none.
GlobalBest(recs) == SetMax({0} \cup {e.score : e \in Cells(recs)})

(***************************************************************************)
(* C12 as stated.  savePersonalBest with a score that does not exceed the  *)
(* player's best leaves user_scores.txt and both bests in memory           *)
(* unchanged; with a higher score it rewrites user_scores.txt so that the  *)
(* player's recorded best is the new score and every other name of the     *)
(* store keeps the maximum score recorded for it, also when the store      *)
(* listed the name more than once, so that the global high score the       *)
(* store loads to never decreases.                                         *)
(***************************************************************************)
C12_AsStated ==
    [][\A sc \in StoreScores :
          RecordPersonalBest(sc, TRUE) =>
             IF sc <= personalBestScore
             THEN UNCHANGED <<userScoresFile, personalBestScore, overallHighestScore>>
             ELSE /\ personalBestScore' = sc
                  /\ overallHighestScore' = Max(overallHighestScore, sc)
                  /\ BestOf(Records(userScoresFile'), playerName) = sc
                  /\ \A name \in Names(Records(userScoresFile)) \ {playerName} :
                        BestOf(Records(userScoresFile'), name)
                            = BestOf(Records(userScoresFile), name)
                  /\ loadHighestScores(userScoresFile', playerName)[1]
                        >= loadHighestScores(userScoresFile, playerName)[1]]_vars

(***************************************************************************)
(* C13 as stated.  Over any records in user_scores.txt loadHighestScores   *)
(* gives as personal best the maximum score of the records that bear the   *)
(* player's name (0 if none) and as overall best the maximum score of all  *)
(* the records (0 if none).                                                *)
(***************************************************************************)
C13_AsStated ==
    loadHighestScores(userScoresFile, playerName)
        = <<GlobalBest(Records(userScoresFile)), BestOf(Records(userScoresFile), playerName)>>

(***************************************************************************)
(* C14 as stated.  saveSessionBestScore rewrites user_scores.txt with one  *)
(* record per name that appeared in it, holding the maximum score recorded *)
(* for the name; no name is added or dropped, loadHighestScores gives the  *)
(* same bests before and after, and a second run leaves the file as it is. *)
(***************************************************************************)
C14_AsStated ==
    [][MergeSessionBest(TRUE) =>
          /\ Names(Records(userScoresFile')) = Names(Records(userScoresFile))
          /\ Len(Records(userScoresFile')) = Cardinality(Names(Records(userScoresFile')))
          /\ \A name \in Names(Records(userScoresFile)) :
                BestOf(Records(userScoresFile'), name) = BestOf(Records(userScoresFile), name)
          /\ loadHighestScores(userScoresFile', playerName)
                = loadHighestScores(userScoresFile, playerName)
          /\ saveSessionBestScore(userScoresFile', TRUE) = userScoresFile']_vars

C17_AsStated ==
    [][/\ \A e \in EntryOf(leaderboard, playerName) :
             \E kept \in EntryOf(leaderboard', playerName) : kept.score >= e.score
       /\ personalBestScore' >= personalBestScore
       /\ overallHighestScore' >= overallHighestScore
       /\ showGrid' # showGrid => currentState = "SETTINGS"
       /\ UNCHANGED fileVars
       /\ currentState' \in States]_vars

(***************************************************************************)
(* Vocabulary of the loader properties.                                    *)
(***************************************************************************)
\* The lines of a file, two tokens each.
Lines(toks) == [i \in 1..(Len(toks) \div 2) |-> <<toks[2 * i - 1], toks[2 * i]>>]

IsObstacleLine(line) ==
    IsNum(line[1]) /\ IsNum(line[2]) /\ InGrid(<<line[1].num, line[2].num>>)

\* The well-formed obstacle lines that lie in the grid, in file order.
ObstaclesOfLines(lines) ==
    LET kept == SelectSeq(lines, IsObstacleLine)
    IN [i \in 1..Len(kept) |-> <<kept[i][1].num, kept[i][2].num>>]

IsScoreLine(line) == ~IsNum(line[1]) /\ IsNum(line[2])

\* The well-formed score lines, in file order.
ScoresOfLines(lines) ==
    LET kept == SelectSeq(lines, IsScoreLine)
    IN [i \in 1..Len(kept) |-> [name |-> <<kept[i][1]>>, score |-> kept[i][2].num]]

FirstOf(seq, n) == IF Len(seq) > n THEN SubSeq(seq, 1, n) ELSE seq

(***************************************************************************)
(* C16 as stated.  A loader skips a malformed line and goes on with the    *)
(* lines after it: the obstacles are, in file order, the first             *)
(* MAX_OBSTACLES well-formed lines of obstacles.txt that lie in the grid;  *)
(* the bests and the leaderboard are those of all the well-formed lines of *)
(* user_scores.txt and scores.txt, the ones after a malformed line too.    *)
(***************************************************************************)
C16_AsStated ==
    /\ obstacles = FirstOf(ObstaclesOfLines(Lines(obstaclesFile)), MAX_OBSTACLES)
    /\ overallHighestScore = GlobalBest(ScoresOfLines(Lines(userScoresFile)))
    /\ personalBestScore = BestOf(ScoresOfLines(Lines(userScoresFile)), playerName)
    /\ Names(leaderboard) = Names(ScoresOfLines(Lines(scoresFile)))
    /\ \A e \in Cells(leaderboard) :
          e.score = BestOf(ScoresOfLines(Lines(scoresFile)), e.name)

(***************************************************************************)
(* C18.  In SETTINGS a confirm flips showGrid and leaves the state         *)
(* SETTINGS, so two confirms restore the flag; quit-to-menu writes the     *)
(* flag to settings.txt in the step that makes the state MENU.  With every *)
(* write succeeding, whenever the state is not SETTINGS the flag a load of *)
(* settings.txt gives is the flag in memory, and a load after a save gives *)
(* the flag saved, whatever the flag was before the load.                  *)
(***************************************************************************)
Persisted == loadSettings(settingsFile, TRUE)

C18_Settings ==
    /\ currentState # "SETTINGS" => Persisted = showGrid
    /\ [][/\ currentState' # "SETTINGS" => Persisted' = showGrid'
          /\ handleSettingsInput({"ENTER"}, TRUE) =>
                /\ showGrid' = ~showGrid
                /\ currentState' = "SETTINGS"
                /\ settingsFile' = settingsFile
          /\ showGrid' # showGrid => currentState = "SETTINGS"
          /\ (currentState = "SETTINGS" /\ currentState' = "MENU") =>
                /\ calls' = <<"saveSettings", "changeState">>
                /\ settingsFile' = <<Nm(IF showGrid' THEN 1 ELSE 0)>>
                /\ loadSettings(settingsFile', ~showGrid') = showGrid'
          /\ "saveSettings" \in Cells(calls') =>
                loadSettings(settingsFile', ~showGrid') = showGrid']_vars

\* After a session that set a personal best, the grid was switched off and
\* the flag saved on the way back to the menu.
C18_Witness ==
    /\ currentState = "MENU"
    /\ calls = <<"saveSettings", "changeState">>
    /\ showGrid = FALSE
    /\ settingsFile = <<Nm(0)>>
    /\ personalBestScore > 0

(***************************************************************************)
(* C19.  calculateSpeed depends on the score alone and is, in              *)
(* milliseconds, max(50, 150 - (score div 30) * 20): 150 at score 0, 130   *)
(* at 30, 50 at 300; it never increases as the score grows and is never    *)
(* below 50.                                                               *)
(***************************************************************************)
PlayScores == {10 * k : k \in 0..(MaxSpeedScore \div 10)}

C19_SpeedInterval ==
    /\ calculateSpeed(score) >= 50
    /\ calculateSpeed(score) <= 150
    /\ \/ calculateSpeed(score) = 150 - (score \div 30) * 20
       \/ calculateSpeed(score) = 50 /\ 150 - (score \div 30) * 20 <= 50
    /\ score = 0 => calculateSpeed(score) = 150
    /\ score = 30 => calculateSpeed(score) = 130
    /\ score = 300 => calculateSpeed(score) = 50
    /\ \A lower \in PlayScores : lower <= score => calculateSpeed(score) <= calculateSpeed(lower)

\* The score is 300 and the timer has run to 40 of the 50 ms of the interval.
C19_Witness == score = 300 /\ moveTimer = 40

(***************************************************************************)
(* C20.  A step of update, which run() takes only when the state after the *)
(* input handling is PLAYING, is a tick exactly when the accumulated time  *)
(* with the delta of the frame has reached the speed interval (>=, where   *)
(* the claim says "exceeds").  A tick moves the snake by one cell however  *)
(* large the delta and resets the timer to 0; without a tick the timer     *)
(* keeps the sum and nothing moves.  No other step accumulates time or     *)
(* moves the snake, and update cannot run when the state is not PLAYING.   *)
(***************************************************************************)
OneTick ==
    /\ moveTimer' = 0
    /\ currentDirection' = nextDirection
    /\ \/ snake' = <<NewHead>> \o snake
       \/ snake' = <<NewHead>> \o PopBack(snake)

NoTick(deltaTime) ==
    /\ moveTimer' = moveTimer + deltaTime
    /\ UNCHANGED <<snake, food, currentDirection, score, currentState>>

UpdateStep == \E deltaTime \in DeltaTimes : update(deltaTime, TRUE, TRUE)

C20_Tick ==
    [][/\ \A deltaTime \in DeltaTimes :
             update(deltaTime, TRUE, TRUE) =>
                 /\ currentState = "PLAYING"
                 /\ OneTick <=> moveTimer + deltaTime >= calculateSpeed(score)
                 /\ NoTick(deltaTime) <=> moveTimer + deltaTime < calculateSpeed(score)
       /\ ~UpdateStep =>
             /\ moveTimer' = moveTimer \/ ("reset" \in Cells(calls') /\ moveTimer' = 0)
             /\ snake' = snake \/ ("reset" \in Cells(calls') /\ snake' = StartSnake)
       /\ currentState # "PLAYING" => ~ENABLED UpdateStep
      ]_vars

\* The claim as stated: the tick needs the accumulated time to exceed the interval.
C20_AsStated ==
    [][\A deltaTime \in DeltaTimes :
           update(deltaTime, TRUE, TRUE) =>
               (OneTick <=> moveTimer + deltaTime > calculateSpeed(score))]_vars

\* The first tick of a session has moved the snake by one cell and reset the timer.
C20_Witness ==
    /\ currentState = "PLAYING"
    /\ moveTimer = 0
    /\ snake = <<Ahead(StartSnake[1], currentDirection)>> \o PopBack(StartSnake)

(***************************************************************************)
(* C21 as stated.  In a session started at score 0 with the snake in the   *)
(* centre column moving UP, eating once gives score 10 and length 4; when  *)
(* the snake then turns LEFT and runs into the left wall the state becomes *)
(* GAME_OVER and scores.txt then loads to an entry of the player: with     *)
(* score 10 if the store had none or a lower one, with the previous higher *)
(* score otherwise.                                                        *)
(***************************************************************************)
StoredScores(file, player) == {e.score : e \in {l \in LoadedEntries(file) : l.name = player}}

C21_AsStated ==
    [][/\ (TickStep /\ score = 0 /\ snake = StartSnake /\ nextDirection = "UP"
              /\ NewHead = food) =>
             score' = 10 /\ Len(snake') = 4 /\ currentState' = "PLAYING"
       /\ (TickStep /\ score = 10 /\ Len(snake) = 4 /\ nextDirection = "LEFT"
              /\ NewHead[1] < 0) =>
             /\ currentState' = "GAME_OVER"
             /\ StoredScores(scoresFile', playerName) =
                   {SetMax(StoredScores(scoresFile, playerName) \cup {10})}]_vars

(***************************************************************************)
(* C22.  selectedMenuItem is always in 0..3.  In MENU the down key maps i  *)
(* to (i + 1) mod 4 and the up key maps i to (i + 3) mod 4, 3 wrapping to  *)
(* 0 and 0 to 3.  Every change of state sets it to 0, so it is 0 in every  *)
(* state other than MENU and whenever MENU is entered.                     *)
(***************************************************************************)
C22_MenuSelection ==
    /\ selectedMenuItem = 0
    /\ [][/\ selectedMenuItem' \in 0..3
          /\ currentState' # "MENU" => selectedMenuItem' = 0
          /\ currentState' # currentState => selectedMenuItem' = 0
          /\ "changeState" \in Cells(calls') => selectedMenuItem' = 0
          /\ handleMenuInput({"S"}) =>
                /\ selectedMenuItem' = (selectedMenuItem + 1) % 4
                /\ selectedMenuItem = 3 => selectedMenuItem' = 0
          /\ handleMenuInput({"W"}) =>
                /\ selectedMenuItem' = (selectedMenuItem + 3) % 4
                /\ selectedMenuItem = 0 => selectedMenuItem' = 3
          /\ selectedMenuItem' # selectedMenuItem =>
                \/ "changeState" \in Cells(calls')
                \/ \E keys \in KeySets({"S", "W", "ENTER"}) : handleMenuInput(keys)
         ]_vars

\* Back in the menu after a session that ended in a collision, the selection
\* has been moved to the last item.
C22_Witness == currentState = "MENU" /\ selectedMenuItem = 3 /\ personalBestScore > 0 /\ ~exited

(***************************************************************************)
(* C23.  When an eating tick leaves no cell free of snake and obstacles,   *)
(* update still runs: the snake grows, the score grows by 10, the food     *)
(* stays where it was and the state stays PLAYING.  On the full board      *)
(* update goes on running, and its next tick is a collision handled as any *)
(* other.                                                                  *)
(***************************************************************************)
FillsBoard == NewHead = food /\ FreeCells(snake) = {food}

C23_FullBoard ==
    [][/\ (currentState = "PLAYING" /\ Looping /\ (FillsBoard \/ FreeCells(snake) = {})) =>
             \A deltaTime \in DeltaTimes : ENABLED update(deltaTime, TRUE, TRUE)
       /\ (TickStep /\ FillsBoard) =>
             /\ food' = food
             /\ currentState' = "PLAYING"
             /\ score' = score + 10
             /\ snake' = <<NewHead>> \o snake
             /\ moveTimer' = 0
             /\ calls' = <<>>
       /\ (TickStep /\ FreeCells(snake) = {}) =>
             /\ NewHeadCollides
             /\ currentState' = "GAME_OVER"
             /\ snake' = <<NewHead>> \o snake
             /\ food' = food
             /\ score' = score
             /\ calls' = <<"saveToLeaderboard", "savePersonalBest", "changeState">>
      ]_vars

\* The snake has eaten twice and fills its room; the food is under it.
C23_Witness ==
    /\ currentState = "PLAYING"
    /\ FreeCells(snake) = {}
    /\ food \in Cells(snake)
    /\ score = 20

(***************************************************************************)
(* C24.  Always 0 <= personalBestScore <= overallHighestScore, and neither *)
(* ever decreases.  A colliding tick with score s leaves                   *)
(* personalBestScore = max(personalBestScore, s) and                       *)
(* overallHighestScore = max(overallHighestScore, s), and nothing else     *)
(* changes either of them.                                                 *)
(***************************************************************************)
CollidingTick == TickStep /\ NewHeadCollides

C24_BestScores ==
    /\ 0 <= personalBestScore
    /\ personalBestScore <= overallHighestScore
    /\ [][/\ 0 <= personalBestScore'
          /\ personalBestScore' <= overallHighestScore'
          /\ personalBestScore' >= personalBestScore
          /\ overallHighestScore' >= overallHighestScore
          /\ CollidingTick =>
                /\ currentState' = "GAME_OVER"
                /\ personalBestScore' = Max(personalBestScore, score)
                /\ overallHighestScore' = Max(overallHighestScore, score)
          /\ ~CollidingTick => UNCHANGED bestVars
         ]_vars

\* A session has just ended with 10 points below the player's best of 20.
C24_Witness ==
    /\ currentState = "GAME_OVER"
    /\ "savePersonalBest" \in Cells(calls)
    /\ score = 10
    /\ personalBestScore = 20

(***************************************************************************)
(* C25.  The score is always a non-negative multiple of 10.  In PLAYING    *)
(* and PAUSED score = 10 * (length - 3) and the segments of the snake are  *)
(* inside the grid and pairwise distinct.  In GAME_OVER the snake has kept *)
(* the colliding head: its length is 3 + score / 10 + 1, the segments      *)
(* behind the head are inside the grid and pairwise distinct, and the head *)
(* is outside the grid, on one of those segments or on an obstacle.        *)
(***************************************************************************)
Distinct(body) == \A i, j \in 1..Len(body) : i # j => body[i] # body[j]

C25_SnakeShape ==
    /\ score >= 0
    /\ score % 10 = 0
    /\ Len(snake) >= 3
    /\ currentState \in {"PLAYING", "PAUSED"} =>
          /\ score = 10 * (Len(snake) - 3)
          /\ \A i \in 1..Len(snake) : InGrid(snake[i])
          /\ Distinct(snake)
    /\ currentState = "GAME_OVER" =>
          /\ Len(snake) = 3 + score \div 10 + 1
          /\ \A i \in 2..Len(snake) : InGrid(snake[i])
          /\ Distinct(Tail(snake))
          /\ \/ ~InGrid(snake[1])
             \/ snake[1] \in Cells(Tail(snake))
             \/ snake[1] \in Cells(obstacles)

\* The game is over after one food: the head of the five segments is outside the grid.
C25_Witness ==
    /\ currentState = "GAME_OVER"
    /\ score = 10
    /\ Len(snake) = 5
    /\ ~InGrid(snake[1])

(***************************************************************************)
(* C26.  In GAME_OVER the score is at most personalBestScore and at most   *)
(* overallHighestScore, the personal best having been recorded before the  *)
(* state changed; so neither banner condition of drawGameOver holds in any *)
(* state in which drawGameOver runs.                                       *)
(***************************************************************************)
C26_NoBanner ==
    currentState = "GAME_OVER" =>
        /\ score <= personalBestScore
        /\ score <= overallHighestScore
        /\ ~newPersonalBestBanner
        /\ ~newHighestScoreBanner

\* The session that has just ended beat the player's stored best of 10 and
\* equalled the other player's 20: user_scores.txt now lists both at 20.
C26_Witness ==
    /\ currentState = "GAME_OVER"
    /\ "savePersonalBest" \in Cells(calls)
    /\ score = 20
    /\ StoredScores(userScoresFile, <<Wd("ann")>>) = {20}
    /\ StoredScores(userScoresFile, playerName) = {20}

(***************************************************************************)
(* C27.  The quit from PLAYING or PAUSED to MENU leaves scores.txt,        *)
(* user_scores.txt, the leaderboard and the two bests as they were, and    *)
(* the score of the session where it was.  PLAYING is entered from MENU    *)
(* (and from GAME_OVER) only through reset, with score 0, so a score left  *)
(* behind is never the score of a colliding tick.  scores.txt and the two  *)
(* bests change only on a colliding tick, user_scores.txt only on a        *)
(* colliding tick or when the program shuts down, and the leaderboard only *)
(* on a colliding tick or by the reload on entering LEADERBOARD.           *)
(***************************************************************************)
ShutdownStep == ~exited /\ exited' /\ calls' = <<"saveSessionBestScore", "saveSettings">>

C27_QuitRecordsNothing ==
    [][/\ (currentState \in {"PLAYING", "PAUSED"} /\ currentState' = "MENU") =>
             /\ UNCHANGED <<scoresFile, userScoresFile, leaderboard, bestVars, score>>
             /\ \/ handleGameInput({"Q"})
                \/ \E keys \in KeySets({"P", "Q"}) : "Q" \in keys /\ handlePausedInput(keys)
       /\ handleGameInput({"Q"}) => currentState' = "MENU"
       /\ handlePausedInput({"Q"}) => currentState' = "MENU"
       /\ (currentState \in {"MENU", "GAME_OVER"} /\ currentState' = "PLAYING") =>
             /\ score' = 0
             /\ "reset" \in Cells(calls')
       /\ currentState' = "PLAYING" => currentState \in {"MENU", "GAME_OVER", "PLAYING", "PAUSED"}
       /\ scoresFile' # scoresFile => CollidingTick
       /\ ~UNCHANGED bestVars => CollidingTick
       /\ userScoresFile' # userScoresFile => CollidingTick \/ ShutdownStep
       /\ leaderboard' # leaderboard =>
             CollidingTick \/ (currentState # "LEADERBOARD" /\ currentState' = "LEADERBOARD")
      ]_vars

\* The program has shut down from the menu after a session abandoned at 10
\* points: no best and no store holds the player.
C27_Witness ==
    /\ exited
    /\ currentState = "MENU"
    /\ score = 10
    /\ personalBestScore = 0
    /\ userScoresFile = <<>>
    /\ StoredScores(scoresFile, playerName) = {}
    /\ EntryOf(leaderboard, playerName) = {}

====
